---- MODULE Spec2Model ----
(***************************************************************************)
(* Sliding-window feature engine of the electricity demand pipeline.       *)
(*                                                                         *)
(* The two feature services, demand_features and feature_demand, run the   *)
(* same streaming pipeline                                                 *)
(*                                                                         *)
(*   update_last_message_time -> add_time_data -> update_window            *)
(*     -> compute_rolling_values -> to_topic                               *)
(*                                                                         *)
(* and differ only in compute_rolling_values.  The variable `service`      *)
(* says which of the two programs a behaviour is a run of.                 *)
(*                                                                         *)
(* Numbers.  A JSON number or a Python float is modelled by the exact      *)
(* fraction <<numerator, denominator>> in lowest terms, None by the empty  *)
(* tuple.  Demand values of the model are integers, so float(x) is exact   *)
(* and np.mean / np.median are the exact quotient (the rounding of the     *)
(* final division to 64 bits is not modelled).                             *)
(*                                                                         *)
(* Time.  Timestamps are whole hours after the epoch, in milliseconds.     *)
(* The cyclical sin/cos fields and the holiday lookup of add_time_data are *)
(* real-valued or external and are not carried by the model's records.     *)
(*                                                                         *)
(* Two specifications.  Spec is the pipeline alone, at one instant of the  *)
(* wall clock: it explores the content of the stores over long and         *)
(* irregular streams.  SpecMonitor adds the passing of time, the thread    *)
(* check_inactivity and the termination signals, over a short regular      *)
(* stream.  The wall clock counts whole seconds; time.sleep(5) returns     *)
(* exactly five seconds later and the steps of the thread take no time.    *)
(***************************************************************************)
EXTENDS Integers, Sequences, FiniteSets, TLC

VARIABLES
    service,         \* which program runs: "demand_features" or "feature_demand"
    backlog,         \* number of regular hourly readings at the head of the input topic
    consumed,        \* the messages taken from the input topic so far, in order
    pc,              \* position of the pipeline for the message in flight
    value,           \* the message in flight (a dict), None between messages
    all_data,        \* state store 'all_data', one list per message key (region)
    demand_history,  \* state store 'demand_history' (feature_demand only), per key
    output_topic,    \* the records produced to the output topic, in order
    free,            \* number of free-choice messages that follow the backlog
    now,             \* time.time(), in seconds
    last_message_time,  \* the global last_message_time
    checker,         \* position of the thread check_inactivity
    wake,            \* the time at which its time.sleep(5) returns
    stop_calls,      \* number of calls of app.stop() so far
    running,         \* the flag of the application that app.stop() clears
    api,             \* what the EIA API holds
    ingest_pc,       \* position of kafka_producer
    latest_readings, \* live: the dict latest_readings
    region_turn,     \* live: index in region_names of the region fetched next
    current_start,   \* historical: the hour at which the next batch starts
    has_more_data,   \* historical: the flag of the batch loop
    produced         \* the messages kafka_producer has produced, in order

\* the variables of kafka_producer
ingest_vars == <<api, ingest_pc, latest_readings, region_turn, current_start,
                 has_more_data, produced>>

\* the variables of the stream and of the wall clock
stream_vars == <<service, backlog, free, now, ingest_vars>>

\* the variables of the thread check_inactivity and of the stop signal
monitor_vars == <<checker, wake, stop_calls, running>>

vars == <<service, backlog, consumed, pc, value, all_data, demand_history, output_topic,
          free, now, last_message_time, checker, wake, stop_calls, running,
          api, ingest_pc, latest_readings, region_turn, current_start, has_more_data,
          produced>>

-----------------------------------------------------------------------------
(* Program constants and bounds                                            *)

MAX_WINDOW_IN_STATE == 168

\* free-choice messages that follow the backlog
MaxMsgs == 3
\* demand carried by an update of an already published hour
AltDemand == 500
\* lengths of the regular backlog a behaviour may start with
Backlogs == {0, 22, 166}
\* regular readings that are replayed while the clock runs, before one
\* free-choice message
MaxReplay == 1
\* time.time() when main starts
StartTime == 1000
\* seconds the clock is followed after the last message (or after the start)
MaxIdle == 27

\* IDLE_TIMEOUT of each service, in seconds
IDLE_TIMEOUT == [demand_features |-> 10, feature_demand |-> 20]
\* time.sleep(5) of check_inactivity
SleepSeconds == 5

Services == {"demand_features", "feature_demand"}
Regions == {"CAL", "TEX"}
HourMs == 60 * 60 * 1000

None == <<>>

-----------------------------------------------------------------------------
(* Arithmetic on fractions                                                 *)

RECURSIVE GCD(_, _)
GCD(a, b) == IF b = 0 THEN a ELSE GCD(b, a % b)

\* float(n / d) for integers n >= 0, d > 0
Frac(n, d) == LET g == GCD(n, d) IN <<n \div g, d \div g>>

\* float(x) of an integer
Float(x) == Frac(x, 1)

\* s[lo] + ... + s[hi], summed by halves
RECURSIVE SumRange(_, _, _)
SumRange(s, lo, hi) ==
    IF lo > hi THEN 0
    ELSE IF lo = hi THEN s[lo]
    ELSE LET mid == (lo + hi) \div 2
         IN  SumRange(s, lo, mid) + SumRange(s, mid + 1, hi)

Sum(s) == SumRange(s, 1, Len(s))

\* np.mean of a non-empty sequence of integers
Mean(s) == Frac(Sum(s), Len(s))

\* np.median of a non-empty sequence of integers: the middle element of the
\* sorted sequence, or the average of the two middle elements
Median(s) ==
    LET sorted == SortSeq(s, LAMBDA a, b: a < b)
        n == Len(s)
    IN  IF n % 2 = 1
        THEN Float(sorted[(n + 1) \div 2])
        ELSE Frac(sorted[n \div 2] + sorted[n \div 2 + 1], 2)

\* Python s[-k:] for 1 <= k <= len(s)
LastN(s, k) == SubSeq(s, Len(s) - k + 1, Len(s))

\* Python s[-k] for 1 <= k <= len(s)
FromEnd(s, k) == s[Len(s) - k + 1]

Last(s) == s[Len(s)]

-----------------------------------------------------------------------------
(* Readings                                                                *)

\* a raw message of the input topic
Reading(region, hour, demand) ==
    [timestamp_ms |-> hour * HourMs, region |-> region, demand |-> demand]

\* the regular hourly stream: hour h carries demand h + 1
Regular(region, hour) == Reading(region, hour, Float(hour + 1))

HourOf(d) == d.timestamp_ms \div HourMs

-----------------------------------------------------------------------------
(* add_time_data                                                           *)

hour_of_day(timestamp_ms) == (timestamp_ms \div HourMs) % 24

\* datetime.weekday(): Monday is 0; 1970-01-01 was a Thursday
day_of_week(timestamp_ms) == ((timestamp_ms \div (24 * HourMs)) + 3) % 7

\* the weekend without its evening peak
hour_category_flat_weekend(timestamp_ms) ==
    LET hour == hour_of_day(timestamp_ms)
        is_weekend == day_of_week(timestamp_ms) >= 5
    IN  IF is_weekend
        THEN "off_peak"
        ELSE IF 9 <= hour /\ hour <= 17 THEN "office_hours"
             ELSE IF 18 <= hour /\ hour <= 22 THEN "evening_peak"
             ELSE "off_peak"

hour_category(timestamp_ms) ==
    LET hour == hour_of_day(timestamp_ms)
        is_weekend == day_of_week(timestamp_ms) >= 5
    IN  IF is_weekend
        THEN IF 18 <= hour /\ hour <= 22 THEN "evening_peak" ELSE "off_peak"
        ELSE IF 9 <= hour /\ hour <= 17 THEN "office_hours"
             ELSE IF 18 <= hour /\ hour <= 22 THEN "evening_peak"
             ELSE "off_peak"

category_mapping(c) ==
    CASE c = "off_peak" -> 0
      [] c = "office_hours" -> 1
      [] c = "evening_peak" -> 2

\* hour_category_num of FeatureCreator._temporal_features: 0 by default, 2
\* under the evening mask, then 1 under the office-hours mask
temporal_category_num(timestamp_ms) ==
    LET hour == hour_of_day(timestamp_ms)
        is_weekend == day_of_week(timestamp_ms) >= 5
        evening_peak_mask == 18 <= hour /\ hour <= 22
        office_hours_mask == ~is_weekend /\ 9 <= hour /\ hour <= 17
        after_evening == IF evening_peak_mask THEN 2 ELSE 0
    IN  IF office_hours_mask THEN 1 ELSE after_evening

add_time_data(v) ==
    LET c == hour_category(v.timestamp_ms)
    IN  [hour_category |-> c, hour_category_num |-> category_mapping(c)] @@ v

-----------------------------------------------------------------------------
(* update_window                                                           *)

\* a comparison of whole data points instead of their window keys
same_window_whole(data_1, data_2) ==
    /\ data_1.timestamp_ms = data_2.timestamp_ms
    /\ data_1.region = data_2.region
    /\ data_1.demand = data_2.demand

same_window(data_1, data_2) ==
    /\ data_1.timestamp_ms = data_2.timestamp_ms
    /\ data_1.region = data_2.region

\* the replace branch missing: every later data point is appended
Inserted_append(data, stored) ==
    IF stored = <<>> THEN <<data>> ELSE Append(stored, data)

\* the list after the first / replace / append branch
Inserted(data, stored) ==
    IF stored = <<>>
    THEN <<data>>
    ELSE IF same_window(data, Last(stored))
         THEN [stored EXCEPT ![Len(stored)] = data]
         ELSE Append(stored, data)

\* eviction one element too late
Evicted_late(list) ==
    IF Len(list) > MAX_WINDOW_IN_STATE + 1 THEN Tail(list) ELSE list

\* eviction of the newest element, all_data.pop()
Evicted_newest(list) ==
    IF Len(list) > MAX_WINDOW_IN_STATE THEN SubSeq(list, 1, Len(list) - 1) ELSE list

\* all_data.pop(0) when the window size is exceeded
Evicted(list) ==
    IF Len(list) > MAX_WINDOW_IN_STATE THEN Tail(list) ELSE list

\* the list that update_window writes back with state.set('all_data', ...)
update_window(data, stored) == Evicted(Inserted(data, stored))

-----------------------------------------------------------------------------
(* compute_rolling_values, demand_features                                 *)

\* [d['demand'] for d in all_data if d['demand'] is not None], as integers
demand_values(stored) ==
    LET present == SelectSeq(stored, LAMBDA d: d.demand # None)
    IN  [i \in 1..Len(present) |-> present[i].demand[1]]

StatKeys ==
    {"full_mean", "mean_3", "mean_24", "full_median", "median_3", "median_24",
     "lag_1h", "lag_24h", "lag_168h"}

\* the dict `values` built from the stored list and the current data point
rolling_values(data, stored) ==
    LET demand == demand_values(stored)
        current_demand == data.demand
        last_3_demand == IF Len(demand) >= 3 THEN LastN(demand, 3) ELSE demand
        last_24_demand == IF Len(demand) >= 24 THEN LastN(demand, 24) ELSE demand
    IN  IF Len(demand) > 0
        THEN [full_mean |-> Mean(demand),
              full_median |-> Median(demand),
              mean_3 |-> Mean(last_3_demand),
              median_3 |-> Median(last_3_demand),
              mean_24 |-> Mean(last_24_demand),
              median_24 |-> Median(last_24_demand),
              lag_1h |-> IF Len(demand) >= 2
                         THEN Float(FromEnd(demand, 2)) ELSE current_demand,
              lag_24h |-> IF Len(demand) >= 25
                          THEN Float(FromEnd(demand, 25)) ELSE current_demand,
              lag_168h |-> IF Len(demand) >= 169
                           THEN Float(FromEnd(demand, 169)) ELSE current_demand]
        ELSE [key \in StatKeys |-> current_demand]

\* {**data, **values}
compute_rolling_values(data, stored) == rolling_values(data, stored) @@ data

-----------------------------------------------------------------------------
(* compute_rolling_values, feature_demand                                  *)

\* the list written back with state.set('demand_history', ...); the caller
\* guarantees a current demand that is not None
appended_history(data, history) == Append(history, data.demand[1])

\* the dict `values` built from the history that already holds the current demand
rolling_values_fd(history) ==
    LET n == Len(history)
    IN  [mean_3 |-> IF n >= 3 THEN Mean(LastN(history, 3)) ELSE None,
         median_3 |-> IF n >= 3 THEN Median(LastN(history, 3)) ELSE None,
         mean_24 |-> IF n >= 24 THEN Mean(LastN(history, 24)) ELSE None,
         median_24 |-> IF n >= 24 THEN Median(LastN(history, 24)) ELSE None,
         mean_168 |-> IF n >= 168 THEN Mean(LastN(history, 168)) ELSE None,
         median_168 |-> IF n >= 168 THEN Median(LastN(history, 168)) ELSE None,
         lag_1h |-> IF n >= 2 THEN Float(FromEnd(history, 2)) ELSE None,
         lag_24h |-> IF n >= 25 THEN Float(FromEnd(history, 25)) ELSE None,
         lag_168h |-> IF n >= 169 THEN Float(FromEnd(history, 169)) ELSE None]

\* {**data, **values} of feature_demand, for a current demand that is not None
compute_rolling_values_fd(data, history) ==
    rolling_values_fd(appended_history(data, history)) @@ data

-----------------------------------------------------------------------------
(* The input topic                                                         *)

\* the messages a producer may publish next for a region whose newest stored
\* reading is known: the next hour, the same hour again (unchanged, revised
\* or without demand), or the hour before (out of order)
Publishable(region) ==
    IF all_data[region] = <<>>
    THEN {Reading(region, 0, d) : d \in {Float(1), None}}
    ELSE LET newest == Last(all_data[region])
             h == HourOf(newest)
         IN  {Reading(region, h + 1, d) : d \in {Float(h + 2), None}}
             \cup {Reading(region, h, d) : d \in {newest.demand, Float(AltDemand), None}}
             \cup {Reading(region, h - 1, Float(h)) : x \in {y \in {h} : y >= 1}}

\* the messages that may be polled next
Pollable ==
    IF Len(consumed) < backlog
    THEN {Regular("CAL", Len(consumed))}
    ELSE IF Len(consumed) < backlog + free
         THEN UNION {Publishable(region) : region \in Regions}
         ELSE {}

-----------------------------------------------------------------------------
(* The pipeline of main                                                    *)

\* the rolling computation chained before the window update
Pipeline_swapped ==
    <<"add_time_data", "compute_rolling_values", "update_window", "to_topic">>

\* the chain sdf.update(add_time_data) / .apply(update_window) /
\* .apply(compute_rolling_values) / .to_topic(output_topic), in the order in
\* which main builds it
Pipeline == <<"add_time_data", "update_window", "compute_rolling_values", "to_topic">>

\* the step that follows `step`; after the last one the next message is polled
After(step) ==
    LET i == CHOOSE j \in 1..Len(Pipeline) : Pipeline[j] = step
    IN  IF i = Len(Pipeline) THEN "poll" ELSE Pipeline[i + 1]

\* kafka_producer runs in another process and is not followed
IngestIdle ==
    /\ api = <<>>
    /\ ingest_pc = "idle"
    /\ latest_readings = <<>>
    /\ region_turn = 1
    /\ current_start = 0
    /\ has_more_data = FALSE
    /\ produced = <<>>

Init ==
    /\ service \in Services
    /\ backlog \in Backlogs
    /\ consumed = <<>>
    /\ pc = "poll"
    /\ value = None
    /\ all_data = [region \in Regions |-> <<>>]
    /\ demand_history = [region \in Regions |-> <<>>]
    /\ output_topic = <<>>
    /\ free = MaxMsgs
    /\ now = StartTime
    /\ last_message_time = 0
    /\ checker = "sleep"
    /\ wake = StartTime + SleepSeconds
    /\ stop_calls = 0
    /\ running = TRUE
    /\ IngestIdle

\* while the application runs, a message is polled from the input topic and
\* enters the pipeline: sdf.update(update_last_message_time)
Poll ==
    /\ pc = "poll"
    /\ running
    /\ \E message \in Pollable :
         /\ consumed' = Append(consumed, message)
         /\ value' = message
    /\ last_message_time' = now
    /\ pc' = Pipeline[1]
    /\ UNCHANGED <<stream_vars, monitor_vars, all_data, demand_history, output_topic>>

\* a message whose timestamp_ms is missing or not a number: custom_ts_extractor
\* raises KeyError before the pipeline is entered, or add_time_data raises on
\* `value['timestamp_ms'] / 1000` after update_last_message_time has run; no
\* handler catches either, and the exception ends app.run()
RaiseInvalidTimestamp ==
    /\ pc = "poll"
    /\ running
    /\ Len(consumed) >= backlog
    /\ Len(consumed) < backlog + free
    /\ \E entered \in BOOLEAN :
         last_message_time' = IF entered THEN now ELSE last_message_time
    /\ pc' = "invalid_timestamp"
    /\ UNCHANGED <<stream_vars, monitor_vars, consumed, value, all_data, demand_history,
                   output_topic>>

\* sdf.update(add_time_data)
AddTimeData ==
    /\ pc = "add_time_data"
    /\ value' = add_time_data(value)
    /\ pc' = After("add_time_data")
    /\ UNCHANGED <<stream_vars, monitor_vars, last_message_time, consumed, all_data,
                   demand_history, output_topic>>

\* one state shared by all message keys
UpdateWindow_shared ==
    /\ pc = "update_window"
    /\ all_data' = [region \in Regions |-> update_window(value, all_data[value.region])]
    /\ pc' = After("update_window")
    /\ UNCHANGED <<stream_vars, monitor_vars, last_message_time, consumed, value,
                   demand_history, output_topic>>

\* sdf.apply(update_window, stateful=True); the state is that of the message key
UpdateWindow ==
    /\ pc = "update_window"
    /\ all_data' = [all_data EXCEPT ![value.region] = update_window(value, @)]
    /\ pc' = After("update_window")
    /\ UNCHANGED <<stream_vars, monitor_vars, last_message_time, consumed, value,
                   demand_history, output_topic>>

\* sdf.apply(compute_rolling_values, stateful=True) of demand_features
ComputeRollingValues ==
    /\ pc = "compute_rolling_values"
    /\ service = "demand_features"
    /\ value' = compute_rolling_values(value, all_data[value.region])
    /\ pc' = After("compute_rolling_values")
    /\ UNCHANGED <<stream_vars, monitor_vars, last_message_time, consumed, all_data,
                   demand_history, output_topic>>

\* sdf.apply(compute_rolling_values, stateful=True) of feature_demand
ComputeRollingValuesFd ==
    /\ pc = "compute_rolling_values"
    /\ service = "feature_demand"
    /\ value.demand # None
    /\ demand_history' =
         [demand_history EXCEPT ![value.region] = appended_history(value, @)]
    /\ value' = compute_rolling_values_fd(value, demand_history[value.region])
    /\ pc' = After("compute_rolling_values")
    /\ UNCHANGED <<stream_vars, monitor_vars, last_message_time, consumed, all_data,
                   output_topic>>

\* feature_demand with a current demand of None: `values` is never bound and
\* the return statement raises; the exception ends app.run()
RaiseFd ==
    /\ pc = "compute_rolling_values"
    /\ service = "feature_demand"
    /\ value.demand = None
    /\ pc' = "raised"
    /\ UNCHANGED <<stream_vars, monitor_vars, last_message_time, consumed, value,
                   all_data, demand_history, output_topic>>

\* sdf.to_topic(output_topic)
ToTopic ==
    /\ pc = "to_topic"
    /\ output_topic' = Append(output_topic, value)
    /\ value' = None
    /\ pc' = After("to_topic")
    /\ UNCHANGED <<stream_vars, monitor_vars, last_message_time, consumed, all_data,
                   demand_history>>

Next ==
    \/ Poll
    \/ RaiseInvalidTimestamp
    \/ AddTimeData
    \/ UpdateWindow
    \/ ComputeRollingValues
    \/ ComputeRollingValuesFd
    \/ RaiseFd
    \/ ToTopic

Spec == Init /\ [][Next]_vars

-----------------------------------------------------------------------------
(* The wall clock, check_inactivity and the termination signals            *)

\* the process has ended: by sys.exit, by an exception, or by the return of
\* app.run(); the daemon thread ends with it
Halted == pc \in {"exited", "raised", "invalid_timestamp", "stopped"}

\* the timeout in milliseconds instead of seconds
Expired_ms(t, last) ==
    last > 0 /\ t - last > IDLE_TIMEOUT[service] * 1000

\* the test without `last_message_time > 0`
Expired_unguarded(t, last) ==
    t - last > IDLE_TIMEOUT[service]

\* last_message_time > 0 and time.time() - last_message_time > IDLE_TIMEOUT
Expired(t, last) ==
    last > 0 /\ t - last > IDLE_TIMEOUT[service]

\* the thread sleeps for the timeout instead of the poll interval
NextWake_timeout(t) == t + IDLE_TIMEOUT[service]

\* the return time of a time.sleep(5) that starts at t
NextWake(t) == t + SleepSeconds

InitMonitor ==
    /\ service \in Services
    /\ backlog = MaxReplay
    /\ consumed = <<>>
    /\ pc = "poll"
    /\ value = None
    /\ all_data = [region \in Regions |-> <<>>]
    /\ demand_history = [region \in Regions |-> <<>>]
    /\ output_topic = <<>>
    /\ free = 1
    /\ now = StartTime
    /\ last_message_time = 0
    /\ checker = "sleep"
    /\ wake = NextWake(StartTime)
    /\ stop_calls = 0
    /\ running = TRUE
    /\ IngestIdle

\* one second passes; a sleep that is over returns first, and a pending
\* app.stop() is called first
Tick ==
    /\ ~Halted
    /\ \/ checker = "done"
       \/ checker = "sleep" /\ now < wake
    /\ now - (IF last_message_time > 0 THEN last_message_time ELSE StartTime) < MaxIdle
    /\ now' = now + 1
    /\ UNCHANGED <<service, backlog, free, ingest_vars, consumed, pc, value, all_data,
                   demand_history, output_topic, last_message_time, monitor_vars>>

\* time.sleep(5) returns and the condition of the loop body is evaluated
CheckInactivity ==
    /\ ~Halted
    /\ checker = "sleep"
    /\ now >= wake
    /\ IF Expired(now, last_message_time)
       THEN checker' = "stop" /\ wake' = wake
       ELSE checker' = "sleep" /\ wake' = NextWake(now)
    /\ UNCHANGED <<stream_vars, consumed, pc, value, all_data, demand_history,
                   output_topic, last_message_time, stop_calls, running>>

\* app.stop() is called again and again: the `break` is missing
StopApp_no_break ==
    /\ ~Halted
    /\ checker = "stop"
    /\ stop_calls' = stop_calls + 1
    /\ running' = FALSE
    /\ checker' = "sleep"
    /\ wake' = NextWake(now)
    /\ UNCHANGED <<stream_vars, consumed, pc, value, all_data, demand_history,
                   output_topic, last_message_time>>

\* the stop also clears the state stores
StopApp_clear ==
    /\ ~Halted
    /\ checker = "stop"
    /\ stop_calls' = stop_calls + 1
    /\ running' = FALSE
    /\ checker' = "done"
    /\ all_data' = [region \in Regions |-> <<>>]
    /\ UNCHANGED <<stream_vars, consumed, pc, value, demand_history,
                   output_topic, last_message_time, wake>>

\* logger.info(...); app.stop(); break
StopApp ==
    /\ ~Halted
    /\ checker = "stop"
    /\ stop_calls' = stop_calls + 1
    /\ running' = FALSE
    /\ checker' = "done"
    /\ UNCHANGED <<stream_vars, consumed, pc, value, all_data, demand_history,
                   output_topic, last_message_time, wake>>

\* app.run() returns once the application has been stopped and no message is
\* in flight
RunReturns ==
    /\ pc = "poll"
    /\ ~running
    /\ pc' = "stopped"
    /\ UNCHANGED <<stream_vars, monitor_vars, consumed, value, all_data, demand_history,
                   output_topic, last_message_time>>

\* SIGINT or SIGTERM: signal_handler runs in the main thread, wherever that
\* is, and sys.exit(0) ends it there
Signal ==
    /\ ~Halted
    /\ pc' = "exited"
    /\ UNCHANGED <<stream_vars, monitor_vars, consumed, value, all_data, demand_history,
                   output_topic, last_message_time>>

NextMonitor ==
    \/ Next
    \/ Tick
    \/ CheckInactivity
    \/ StopApp
    \/ RunReturns
    \/ Signal

SpecMonitor == InitMonitor /\ [][NextMonitor]_vars

\* the clock advances and the thread is scheduled
SpecMonitorFair ==
    /\ SpecMonitor
    /\ WF_vars(Tick)
    /\ WF_vars(CheckInactivity)
    /\ WF_vars(StopApp)

-----------------------------------------------------------------------------
(* Properties                                                              *)

\* the message in flight, as it was polled
Polled == consumed[Len(consumed)]

\* the key of the message in flight
Key == Polled.region

\* index in `consumed` of the message before consumed[i] with the same key, 0 if none
PrevIndex(i) ==
    LET earlier == {j \in 1..(i - 1) : consumed[j].region = consumed[i].region}
    IN  IF earlier = {} THEN 0 ELSE CHOOSE j \in earlier : \A k \in earlier : k <= j

\* the messages whose upsert has been executed
Upserted ==
    IF pc \in {"add_time_data", "update_window"}
    THEN SubSeq(consumed, 1, Len(consumed) - 1)
    ELSE consumed

\* the upserted messages of a key carry non-decreasing timestamps
InOrder(region) ==
    LET mine == SelectSeq(Upserted, LAMBDA m : m.region = region)
    IN  \A i \in 1..(Len(mine) - 1) :
          mine[i].timestamp_ms <= mine[i + 1].timestamp_ms

\* no two stored elements of a key share (timestamp_ms, region)
NoSharedWindow(region) ==
    LET stored == all_data[region]
        windows == {<<stored[i].timestamp_ms, stored[i].region>> : i \in 1..Len(stored)}
    IN  Cardinality(windows) = Len(stored)

\* C1: for every key the stored history never holds more than
\* MAX_WINDOW_IN_STATE = 168 elements.
C1_HistoryBounded ==
    \A region \in Regions : Len(all_data[region]) <= MAX_WINDOW_IN_STATE

\* an upsert has just evicted the oldest reading of a full window
C1_Witness ==
    /\ pc = "compute_rolling_values"
    /\ Len(all_data[Key]) = MAX_WINDOW_IN_STATE
    /\ HourOf(all_data[Key][1]) = 1
    /\ Len(SelectSeq(consumed, LAMBDA m : m.region = Key)) > MAX_WINDOW_IN_STATE

\* C2, as stated: after any sequence of upserts no history holds two elements
\* with the same (timestamp_ms, region).
C2_NoSharedWindowEver ==
    \A region \in Regions : NoSharedWindow(region)

\* C2, amended: as long as the readings of a key were upserted with
\* non-decreasing timestamps, its history holds no two elements with the same
\* (timestamp_ms, region).
C2_NoSharedWindowInOrder ==
    \A region \in Regions : InOrder(region) => NoSharedWindow(region)

\* a revised reading of the newest hour has been upserted into a history of
\* several in-order readings
C2_Witness ==
    /\ pc = "compute_rolling_values"
    /\ InOrder(Key)
    /\ Len(all_data[Key]) >= 2
    /\ PrevIndex(Len(consumed)) > 0
    /\ consumed[PrevIndex(Len(consumed))].timestamp_ms = Polled.timestamp_ms
    /\ consumed[PrevIndex(Len(consumed))].demand # Polled.demand

\* C4: an upsert whose (timestamp_ms, region) equals that of the last stored
\* element replaces that element and nothing else: the length is unchanged and
\* no element is evicted.
C4_ReplaceKeepsLength ==
    [][(/\ pc = "update_window"
        /\ all_data[value.region] # <<>>
        /\ value.timestamp_ms = Last(all_data[value.region]).timestamp_ms
        /\ value.region = Last(all_data[value.region]).region)
       => (/\ Len(all_data'[value.region]) = Len(all_data[value.region])
           /\ \A i \in 1..(Len(all_data[value.region]) - 1) :
                all_data'[value.region][i] = all_data[value.region][i])]_vars

\* the newest element of a full window has just been replaced
C4_Witness ==
    /\ pc = "compute_rolling_values"
    /\ Len(all_data[Key]) = MAX_WINDOW_IN_STATE
    /\ PrevIndex(Len(consumed)) > 0
    /\ consumed[PrevIndex(Len(consumed))].timestamp_ms = Polled.timestamp_ms

\* C5: an append to a full history removes exactly the oldest element: the
\* length stays 168, the elements 2..168 move down by one in their order and
\* the new reading is the last element.
C5_EvictsOldest ==
    [][(/\ pc = "update_window"
        /\ Len(all_data[value.region]) = MAX_WINDOW_IN_STATE
        /\ value.timestamp_ms # Last(all_data[value.region]).timestamp_ms)
       => (/\ Len(all_data'[value.region]) = MAX_WINDOW_IN_STATE
           /\ \A i \in 1..(MAX_WINDOW_IN_STATE - 1) :
                all_data'[value.region][i] = all_data[value.region][i + 1]
           /\ all_data'[value.region][MAX_WINDOW_IN_STATE] = value)]_vars

\* the 169th distinct reading of a key has been upserted: 168 elements are
\* stored and the oldest of them is the second reading
C5_Witness ==
    /\ pc = "compute_rolling_values"
    /\ Len(all_data[Key]) = MAX_WINDOW_IN_STATE
    /\ HourOf(all_data[Key][1]) = 1
    /\ HourOf(Last(all_data[Key])) = MAX_WINDOW_IN_STATE
    /\ InOrder(Key)

\* the series the rolling statistics of the running service are computed from
Series(region) ==
    IF service = "demand_features"
    THEN demand_values(all_data[region])
    ELSE demand_history[region]

\* C7: whenever the rolling computation runs for a reading with a demand,
\* the upsert of that reading has already happened: the series the statistics
\* are computed from ends with that reading's demand.
C7_CurrentDemandIncluded ==
    [][(pc = "compute_rolling_values" /\ pc' = After(pc) /\ Polled.demand # None)
        => (/\ Len(Series(Key))' >= 1
            /\ Float(Last(Series(Key)))' = Polled.demand)]_vars

\* the rolling computation has run for a reading that follows an earlier
\* reading of its key with another demand
C7_Witness ==
    /\ pc = "to_topic"
    /\ Polled.demand # None
    /\ Len(Series(Key)) >= 2
    /\ FromEnd(Series(Key), 2) # Last(Series(Key))

\* the message in flight repeats the newest earlier message of its key
IsRedelivery ==
    /\ pc \in {"add_time_data", "update_window", "compute_rolling_values", "to_topic"}
    /\ PrevIndex(Len(consumed)) > 0
    /\ consumed[PrevIndex(Len(consumed))] = Polled

\* the message in flight revises the demand of the newest earlier message of its key
IsUpdate ==
    /\ pc \in {"add_time_data", "update_window", "compute_rolling_values", "to_topic"}
    /\ PrevIndex(Len(consumed)) > 0
    /\ consumed[PrevIndex(Len(consumed))].timestamp_ms = Polled.timestamp_ms
    /\ consumed[PrevIndex(Len(consumed))].demand # Polled.demand
    /\ Polled.demand # None

\* the statistical fields an enriched record may carry
AllStatKeys == StatKeys \cup {"mean_168", "median_168"}

Min(a, b) == IF a <= b THEN a ELSE b

\* C3: a redelivered reading (same key, timestamp and demand as the newest
\* one) leaves the history as it is and is emitted as the same enriched record
\* as the first time.
C3_RedeliveryIdempotent ==
    [][/\ (IsRedelivery /\ pc = "update_window") => all_data' = all_data
       /\ (IsRedelivery /\ pc = "to_topic")
             => value = output_topic[PrevIndex(Len(consumed))]]_vars

\* C6: a revised reading (same key and timestamp, another demand) replaces the
\* demand of the last stored element without changing the length, and with a
\* single stored reading every emitted statistic equals the new demand.
C6_UpdateReflectsNewDemand ==
    [][/\ (IsUpdate /\ pc = "update_window")
             => /\ Len(all_data'[Key]) = Len(all_data[Key])
                /\ Last(all_data'[Key]).demand = Polled.demand
       /\ (IsUpdate /\ pc = "to_topic" /\ Len(all_data[Key]) = 1)
             => \A key \in AllStatKeys \cap DOMAIN value :
                  value[key] = Polled.demand]_vars

\* C8: with n >= 1 demand values in the history, every emitted rolling mean
\* and median of span 3, 24 or 168 is the mean or median of exactly the last
\* min(n, span) values.
C8_StatsOverTrailingSpan ==
    (pc = "to_topic" /\ Len(demand_values(all_data[Key])) >= 1)
        => LET D == demand_values(all_data[Key])
               slice(span) == LastN(D, Min(Len(D), span))
               mean_key == [span \in {3, 24, 168} |->
                              CASE span = 3 -> "mean_3" [] span = 24 -> "mean_24"
                                [] span = 168 -> "mean_168"]
               median_key == [span \in {3, 24, 168} |->
                                CASE span = 3 -> "median_3" [] span = 24 -> "median_24"
                                  [] span = 168 -> "median_168"]
           IN  \A span \in {3, 24, 168} :
                 /\ mean_key[span] \in DOMAIN value
                      => value[mean_key[span]] = Mean(slice(span))
                 /\ median_key[span] \in DOMAIN value
                      => value[median_key[span]] = Median(slice(span))

\* C9: the record emitted for the first reading of a key with demand d carries
\* mean_3, mean_24, mean_168, lag_1h, lag_24h and lag_168h, all equal to d.
C9_FirstReadingFallsBack ==
    (pc = "to_topic" /\ PrevIndex(Len(consumed)) = 0 /\ Polled.demand # None)
        => \A key \in {"mean_3", "mean_24", "mean_168", "lag_1h", "lag_24h", "lag_168h"} :
             /\ key \in DOMAIN value
             /\ value[key] = Polled.demand

\* C10: with D the n demand values of the history, oldest first, the emitted
\* lags are D[n-2], D[n-25] and D[n-169] when n reaches 2, 25 and 169, and the
\* current reading's own demand otherwise.
C10_LagsByPosition ==
    pc = "to_topic"
        => LET D == demand_values(all_data[Key])
               n == Len(D)
           IN  /\ value.lag_1h = IF n >= 2 THEN Float(FromEnd(D, 2)) ELSE Polled.demand
               /\ value.lag_24h = IF n >= 25 THEN Float(FromEnd(D, 25)) ELSE Polled.demand
               /\ value.lag_168h = IF n >= 169 THEN Float(FromEnd(D, 169)) ELSE Polled.demand

\* C11: the emitted lag_168h is never the demand of a reading that has left
\* the bounded history: it is the current reading's demand or the demand of a
\* stored element (on the 169th hourly reading, the current demand).
C11_LagNeverEvicted ==
    (pc = "to_topic" /\ value.lag_168h # None)
        => \/ value.lag_168h = Polled.demand
           \/ \E i \in 1..Len(all_data[Key]) : all_data[Key][i].demand = value.lag_168h

\* C12: for a current reading with a demand every emitted statistic is
\* non-null, and a lag without enough history equals the current demand.
C12_StatsNeverNull ==
    (pc = "to_topic" /\ Polled.demand # None)
        => /\ \A key \in AllStatKeys \cap DOMAIN value : value[key] # None
           /\ Len(demand_values(all_data[Key])) < 2 => value.lag_1h = Polled.demand
           /\ Len(demand_values(all_data[Key])) < 25 => value.lag_24h = Polled.demand
           /\ Len(demand_values(all_data[Key])) < 169 => value.lag_168h = Polled.demand

\* C13: the rolling computation never raises, whatever the reading, also
\* without a demand.
C13_NeverRaises == pc # "raised"

\* C14: for a current reading without a demand and a history without any
\* demand, every emitted statistic is a (non-null) default value.
C14_DefaultWhenNoDemand ==
    (/\ pc = "to_topic"
     /\ Polled.demand = None
     /\ Len(demand_values(all_data[Key])) = 0)
        => \A key \in AllStatKeys \cap DOMAIN value : value[key] # None

-----------------------------------------------------------------------------
(* check_inactivity and shutdown                                           *)

\* the process has not been ended by a termination signal or by an exception
Alive == pc \notin {"exited", "raised", "invalid_timestamp"}

\* C15: while no reading has been processed (last_message_time is still 0),
\* check_inactivity neither decides to stop nor calls app.stop(), however long
\* the stream stays silent.
C15_NoStopWhileIdle ==
    last_message_time = 0 => (stop_calls = 0 /\ checker = "sleep")

\* the stream has been silent for longer than the timeout and a poll interval,
\* and nothing has been stopped
C15_Witness ==
    /\ last_message_time = 0
    /\ now - StartTime > IDLE_TIMEOUT[service] + SleepSeconds
    /\ stop_calls = 0
    /\ checker = "sleep"

\* C16: app.stop() is called at most once; after the call the thread is in its
\* terminal position and never polls or calls again, also when the record in
\* flight is processed afterwards.
C16_StopAtMostOnce ==
    [][/\ stop_calls' <= 1
       /\ checker = "done" => UNCHANGED <<checker, wake, stop_calls, running>>]_vars

\* the stop has been called and the record in flight is about to be produced
C16_Witness ==
    /\ stop_calls = 1
    /\ checker = "done"
    /\ pc = "to_topic"

\* C17: when a reading has been processed and no further one follows, the
\* thread eventually finds the timeout expired and calls app.stop(), unless
\* the process is ended first.
C17_EventuallyStops ==
    \A n \in 1..(MaxReplay + 1) :
        (Len(consumed) = n) ~> (Len(consumed) > n \/ stop_calls >= 1 \/ ~Alive)

\* the timeout has expired after the last reading and the stop has been called
C17_Witness ==
    /\ Len(consumed) >= 1
    /\ Alive
    /\ Expired(now, last_message_time)
    /\ stop_calls = 1

\* C18, as stated: once more than IDLE_TIMEOUT + 1 seconds have passed since
\* the last reading, app.stop() has been called exactly once.
C18_StopWithinTimeoutPlusOne ==
    (/\ Alive
     /\ last_message_time > 0
     /\ now - last_message_time > IDLE_TIMEOUT[service] + 1)
        => stop_calls = 1

\* C18, amended: once more than IDLE_TIMEOUT plus one poll interval have
\* passed since the last reading, app.stop() has been called exactly once.
C18_StopWithinTimeoutPlusSleep ==
    (/\ Alive
     /\ last_message_time > 0
     /\ now - last_message_time > IDLE_TIMEOUT[service] + SleepSeconds)
        => stop_calls = 1

\* more than the timeout and a poll interval after the last reading
C18_Witness ==
    /\ Alive
    /\ last_message_time > 0
    /\ now - last_message_time > IDLE_TIMEOUT[service] + SleepSeconds
    /\ stop_calls = 1

\* C19: every step of check_inactivity leaves the state stores, the record in
\* flight, the position of the record path, the topics and last_message_time
\* unchanged.
C19_MonitorFrame ==
    [][(checker' # checker \/ wake' # wake \/ stop_calls' # stop_calls)
          => UNCHANGED <<all_data, demand_history, value, pc, consumed, output_topic,
                         last_message_time>>]_vars

\* the thread has run to its end next to a non-empty history
C19_Witness ==
    /\ checker = "done"
    /\ \E region \in Regions : Len(all_data[region]) >= 1

-----------------------------------------------------------------------------
(* The stream as a whole                                                   *)

\* the fields of a reading that every step passes on
SameReading(a, b) ==
    /\ a.timestamp_ms = b.timestamp_ms
    /\ a.region = b.region
    /\ a.demand = b.demand

\* C21: the records of the output topic are the accepted readings, one for
\* one and in the order of the input; when no record is in flight, none is
\* missing.
C21_OnePerInputInOrder ==
    /\ Len(output_topic) <= Len(consumed)
    /\ \A i \in 1..Len(output_topic) : SameReading(output_topic[i], consumed[i])
    /\ pc \in {"poll", "raised"} => Len(output_topic) = Len(consumed)

\* the upserted messages of a key, oldest first
UpsertedOf(region) == SelectSeq(Upserted, LAMBDA m : m.region = region)

\* the history that the readings of one key produce on their own
RECURSIVE Replay(_)
Replay(readings) ==
    IF readings = <<>>
    THEN <<>>
    ELSE update_window(add_time_data(Last(readings)),
                       Replay(SubSeq(readings, 1, Len(readings) - 1)))

\* the statistics that the readings of one key produce on their own
ReplayedValues(region) ==
    IF service = "demand_features"
    THEN rolling_values(Polled, Replay(UpsertedOf(region)))
    ELSE LET mine == SelectSeq(consumed, LAMBDA m : m.region = region)
         IN  rolling_values_fd([i \in 1..Len(mine) |-> mine[i].demand[1]])

\* C22: a step changes the stored sequences of the key of the record in
\* flight only; and in a stream without backlog, each history is the one that
\* the readings of its key produce on their own, and so are the emitted
\* statistics, however the keys interleave.
C22_KeysIndependent ==
    [][/\ \A region \in Regions :
            (all_data'[region] # all_data[region]
                \/ demand_history'[region] # demand_history[region])
              => (value # None /\ value.region = region)
       /\ backlog = 0
            => \A region \in Regions : all_data[region] = Replay(UpsertedOf(region))
       /\ (backlog = 0 /\ pc = "to_topic")
            => \A key \in DOMAIN ReplayedValues(Key) :
                 value[key] = ReplayedValues(Key)[key]]_vars

\* a record of one key is about to be produced while the other key has a
\* history of its own
C22_Witness ==
    /\ pc = "to_topic"
    /\ backlog = 0
    /\ \A region \in Regions : all_data[region] # <<>>
    /\ Len(consumed) = MaxMsgs
    /\ consumed[Len(consumed) - 1].region # Key

\* C23: for every hour of the day and day of the week, hour_category is
\* evening_peak iff the hour is in [18,22], office_hours iff the day is a
\* weekday and the hour is in [9,17], off_peak otherwise; hour_category_num is
\* 0, 1, 2 for off_peak, office_hours, evening_peak, in add_time_data and in
\* FeatureCreator._temporal_features alike.
C23_HourCategory ==
    pc \in {"update_window", "compute_rolling_values", "to_topic"}
        => LET hour == hour_of_day(value.timestamp_ms)
               day == day_of_week(value.timestamp_ms)
               expected == IF hour \in 18..22 THEN "evening_peak"
                           ELSE IF day \in 0..4 /\ hour \in 9..17 THEN "office_hours"
                           ELSE "off_peak"
               expected_num == CASE expected = "off_peak" -> 0
                                 [] expected = "office_hours" -> 1
                                 [] expected = "evening_peak" -> 2
           IN  /\ hour \in 0..23 /\ day \in 0..6
               /\ value.hour_category = expected
               /\ value.hour_category_num = expected_num
               /\ temporal_category_num(value.timestamp_ms) = expected_num

\* Saturday 1970-01-03, 19:00 UTC
C23_Witness ==
    /\ pc = "to_topic"
    /\ value.timestamp_ms = (2 * 24 + 19) * HourMs
    /\ value.hour_category = "evening_peak"
    /\ value.hour_category_num = 2

\* C24: a record with a malformed timestamp is skipped and the pipeline goes
\* on with the records that follow: it never ends the pipeline.
C24_MalformedSkipped == pc # "invalid_timestamp"

\* C25: lag_1h is the demand of the reading stored immediately before the
\* current one in the history of the key, and lag_24h that of the reading 24
\* positions before it, whether or not a stored demand is null.
C25_LagIsStoredPredecessor ==
    pc = "to_topic"
        => LET stored == all_data[Key]
           IN  /\ Len(stored) >= 2 => value.lag_1h = FromEnd(stored, 2).demand
               /\ Len(stored) >= 25 => value.lag_24h = FromEnd(stored, 25).demand

\* C26: whenever app.stop() is called, the last reading was processed more
\* than IDLE_TIMEOUT seconds before.
C26_NoStopAfterRecentReading ==
    [][stop_calls' > stop_calls
          => now - last_message_time > IDLE_TIMEOUT[service]]_vars

\* C27: every stored per-key sequence, all_data and the demand series alike,
\* holds at most 168 entries.
C27_AllSequencesBounded ==
    \A region \in Regions :
        /\ Len(all_data[region]) <= MAX_WINDOW_IN_STATE
        /\ Len(demand_history[region]) <= MAX_WINDOW_IN_STATE

\* the fields that both services emit
SharedKeys == {"mean_3", "median_3", "mean_24", "median_24", "lag_1h", "lag_24h", "lag_168h"}

\* the consumed readings of a key have demands and strictly increasing timestamps
StrictlyIncreasing(region) ==
    LET mine == SelectSeq(consumed, LAMBDA m : m.region = region)
    IN  /\ \A i \in 1..Len(mine) : mine[i].demand # None
        /\ \A i \in 1..(Len(mine) - 1) : mine[i].timestamp_ms < mine[i + 1].timestamp_ms

\* C28: on a key whose readings have demands and strictly increasing
\* timestamps, every shared field that feature_demand emits non-null has the
\* value that demand_features computes for the same reading from the same
\* history (update_window is the same in both services).
C28_VariantsAgree ==
    (/\ service = "feature_demand"
     /\ pc = "to_topic"
     /\ StrictlyIncreasing(Key))
        => LET features == rolling_values(Polled, all_data[Key])
           IN  \A key \in SharedKeys :
                 value[key] # None => value[key] = features[key]

-----------------------------------------------------------------------------
(* kafka_producer, live                                                    *)

\* config.region_names
region_names == <<"CAL", "TEX">>
\* records the API holds for a region at most
MaxApiRecords == 2
\* messages after which the API revises no record any more
MaxProduced == 3
\* the demands the API reports
LiveDemands == {1, 2}

\* connect_api(start_day=None, end_day=None, region_name): the records the
\* API holds for the region, merged and sorted by ascending timestamp_ms
connect_api_live(region) == api[region]

\* the newest element of the fetched list
current_reading_newest(merged_data) == merged_data[Len(merged_data)]

\* current_reading = merged_data[0]
current_reading(merged_data) == merged_data[1]

InitLive ==
    /\ service = "demand_features"
    /\ backlog = 0
    /\ consumed = <<>>
    /\ pc = "poll"
    /\ value = None
    /\ all_data = [region \in Regions |-> <<>>]
    /\ demand_history = [region \in Regions |-> <<>>]
    /\ output_topic = <<>>
    /\ free = 0
    /\ now = StartTime
    /\ last_message_time = 0
    /\ checker = "sleep"
    /\ wake = NextWake(StartTime)
    /\ stop_calls = 0
    /\ running = TRUE
    /\ api \in {[region \in Regions |-> <<Reading(region, 0, Float(d[region]))>>] :
                  d \in [Regions -> LiveDemands]}
    /\ ingest_pc = "live"
    /\ latest_readings = [region \in Regions |-> None]
    /\ region_turn = 1
    /\ current_start = 0
    /\ has_more_data = FALSE
    /\ produced = <<>>

\* the API publishes the next hour of a region
ApiAppends ==
    /\ ingest_pc = "live"
    /\ \E region \in Regions, d \in LiveDemands :
         /\ Len(api[region]) < MaxApiRecords
         /\ api' = [api EXCEPT
                      ![region] = Append(@, Reading(region, Len(@), Float(d)))]
    /\ UNCHANGED <<service, backlog, free, now, ingest_pc, latest_readings, region_turn,
                   current_start, has_more_data, produced, consumed, pc, value, all_data,
                   demand_history, output_topic, last_message_time, monitor_vars>>

\* the API revises the demand of an hour it already holds
ApiRevises ==
    /\ ingest_pc = "live"
    /\ Len(produced) < MaxProduced
    /\ \E region \in Regions, d \in LiveDemands :
         \E i \in 1..Len(api[region]) :
           /\ api[region][i].demand # Float(d)
           /\ api' = [api EXCEPT ![region][i].demand = Float(d)]
    /\ UNCHANGED <<service, backlog, free, now, ingest_pc, latest_readings, region_turn,
                   current_start, has_more_data, produced, consumed, pc, value, all_data,
                   demand_history, output_topic, last_message_time, monitor_vars>>

\* one pass of the body of `for region_name in region_names`; after the last
\* region, time.sleep(600) and the next round
LiveFetch ==
    /\ ingest_pc = "live"
    /\ LET region_name == region_names[region_turn]
           merged_data == connect_api_live(region_name)
           reading == current_reading(merged_data)
       IN  IF latest_readings[region_name] = None
              \/ reading # latest_readings[region_name]
           THEN /\ produced' = Append(produced, reading)
                /\ latest_readings' = [latest_readings EXCEPT ![region_name] = reading]
           ELSE UNCHANGED <<produced, latest_readings>>
    /\ region_turn' = IF region_turn = Len(region_names) THEN 1 ELSE region_turn + 1
    /\ UNCHANGED <<service, backlog, free, now, api, ingest_pc, current_start,
                   has_more_data, consumed, pc, value, all_data, demand_history,
                   output_topic, last_message_time, monitor_vars>>

NextLive ==
    \/ ApiAppends
    \/ ApiRevises
    \/ LiveFetch

SpecLive == InitLive /\ [][NextLive]_vars

\* the messages produced for a region, in order
ProducedFor(region) == SelectSeq(produced, LAMBDA m : m.region = region)

\* C29: in a live round a message is published for a region iff nothing has
\* been published for it yet or the newest fetched reading differs from the
\* last one published; no two consecutive messages of a region are the same,
\* and latest_readings[region] is the last message published for it.
C29_LivePublishesNewest ==
    [][(ingest_pc = "live" /\ region_turn' # region_turn)
          => LET region_name == region_names[region_turn]
                 newest == current_reading_newest(connect_api_live(region_name))
                 mine == ProducedFor(region_name)'
             IN  /\ (produced' # produced)
                      <=> (latest_readings[region_name] = None
                             \/ newest # latest_readings[region_name])
                 /\ \A i \in 1..(Len(mine) - 1) : mine[i] # mine[i + 1]
                 /\ mine # <<>> => latest_readings'[region_name] = mine[Len(mine)]]_vars

-----------------------------------------------------------------------------
(* kafka_producer, historical.  Hours are counted from midnight of the day *)
(* of start_day; one region is followed, the loop over the regions runs    *)
(* the same batch loop for each.                                           *)

\* `if total_elements == 1250`
BatchRecords == 1250
\* 'length': 5000 of get_demand_params: the rows of one API response
ApiLength == 5000
\* the data types D, DF, TI, NG: the rows of a complete hour
DataTypes == 4

\* the hours of the day at which start_day may fall
HistoricalStarts == {0, 5, 22, 23}
\* the numbers of hours the API holds from start_day on
HistoricalHours == {30, 1249, 1250, 1251, 1300, 2498, 2500, 2600}
\* the hours, counted from start_day, for which the API lacks one data type
IncompleteHours == {{}, {10}}

\* the last hour the API holds
LastHeld == api.first + api.hours - 1

\* number of rows of the hours start .. start + k - 1
RowsOf(start, k) ==
    DataTypes * k
      - Cardinality({off \in api.incomplete :
                       start <= api.first + off /\ api.first + off < start + k})

\* connect_api(start_day, end_day, region_name): the API returns the first
\* ApiLength rows from `start` on, sorted by period; merge_demand_data makes
\* one record of the rows of an hour and sorts by timestamp_ms.  The list
\* of the hours of the merged records.
connect_api(start) ==
    LET available == LastHeld - start + 1
        full == {k \in 1..available :
                   RowsOf(start, k) >= ApiLength /\ RowsOf(start, k - 1) < ApiLength}
        n == IF available <= 0 THEN 0
             ELSE IF full = {} THEN available
             ELSE CHOOSE k \in full : TRUE
    IN  [i \in 1..n |-> start + i - 1]

\* human_read_period.endswith('T23')
IsT23(hour) == hour % 24 = 23

\* the index after the last T23 entry of the batch, 0 (None) if there is none
cutoff_index(merged_data) ==
    LET found == {i \in 1..Len(merged_data) : IsT23(merged_data[i])}
        last == merged_data[Len(merged_data)]
        cut == last - ((last + 1) % 24)
    IN  IF found = {} THEN 0 ELSE cut - merged_data[1] + 1

InitHistorical ==
    /\ service = "demand_features"
    /\ backlog = 0
    /\ consumed = <<>>
    /\ pc = "poll"
    /\ value = None
    /\ all_data = [region \in Regions |-> <<>>]
    /\ demand_history = [region \in Regions |-> <<>>]
    /\ output_topic = <<>>
    /\ free = 0
    /\ now = StartTime
    /\ last_message_time = 0
    /\ checker = "sleep"
    /\ wake = NextWake(StartTime)
    /\ stop_calls = 0
    /\ running = TRUE
    /\ api \in [first : HistoricalStarts, hours : HistoricalHours,
                 incomplete : IncompleteHours]
    /\ ingest_pc = "historical"
    /\ latest_readings = <<>>
    /\ region_turn = 1
    /\ current_start = api.first
    /\ has_more_data = TRUE
    /\ produced = <<>>

\* one pass of the body of `while has_more_data`: fetch, cut, produce
HistoricalBatch ==
    /\ ingest_pc = "historical"
    /\ has_more_data
    /\ LET merged_data == connect_api(current_start)
           total_elements == Len(merged_data)
           cutoff == cutoff_index(merged_data)
           kept == IF total_elements = BatchRecords /\ cutoff # 0
                   THEN SubSeq(merged_data, 1, cutoff)
                   ELSE merged_data
       IN  IF total_elements = 0
           THEN \* merged_data[0] raises IndexError
                /\ ingest_pc' = "raised"
                /\ UNCHANGED <<current_start, has_more_data, produced>>
           ELSE /\ has_more_data' = (total_elements = BatchRecords)
                /\ current_start' = IF total_elements = BatchRecords
                                    THEN kept[Len(kept)] + 1
                                    ELSE current_start
                /\ produced' = produced \o kept
                /\ ingest_pc' = IF total_elements = BatchRecords
                                THEN "historical" ELSE "done"
    /\ UNCHANGED <<service, backlog, free, now, api, latest_readings, region_turn,
                   consumed, pc, value, all_data, demand_history, output_topic,
                   last_message_time, monitor_vars>>

NextHistorical == HistoricalBatch

SpecHistorical == InitHistorical /\ [][NextHistorical]_vars

\* C30: the batch loop ends without an exception, what it has produced is at
\* every moment the records the API holds from start_day on, each once and in
\* ascending order, and when the loop has ended none of them is missing.
C30_HistoricalComplete ==
    ingest_pc \in {"historical", "done", "raised"}
        => /\ ingest_pc # "raised"
           /\ \A i \in 1..Len(produced) : produced[i] = api.first + i - 1
           /\ ingest_pc = "done" => Len(produced) = api.hours

====
